---- MODULE Spec2Model ----
(***************************************************************************)
(* bitpet-cli: the terminal animation player (src/src/ui.rs) together with *)
(* the process around it (src/src/main.rs): the playback loop              *)
(* print_in_box, the render closure of draw_animation_in_center_of_box,    *)
(* the StdoutContainer drop guard, the Ctrl-C handler thread and the       *)
(* terminal the loop writes to.                                            *)
(***************************************************************************)
EXTENDS Integers, Sequences, FiniteSets, TLC

(* ------------------------------ bounds -------------------------------- *)
MaxResizes == 2      \* resizes of the real terminal during one playback
MaxKeys    == 1      \* terminal events other than Resize during one playback
MaxSigints == 1      \* interrupts delivered to the process
MaxTagLen  == 7      \* characters of a colour tag
MaxImageLen == 6     \* characters of a window image, line feeds included
MaxFrameIndex == 3   \* largest frame index a window of a scanned list names
MaxReplays == 1      \* playbacks after the first in one process

(* ------------------------- program constants -------------------------- *)
BOX_WIDTH  == 45
BOX_HEIGHT == 10
ERR_DY     == 2
ERR_LEN    == 48     \* "Error: Terminal too small to display your pet :("
U16_MAX    == 65535

NoArea == [start_x |-> -1, start_y |-> -1, width |-> 0, height |-> 0]

(* ----------------------------- animations ----------------------------- *)
Glyph3 == [r \in 1..3 |-> [c \in 1..3 |-> "X"]]
GlyphRagged == << <<"a">>, <<"b", "c", "d">> >>

AnimationWindow(s, e, img, dx, dy) ==
    [start_frame_inclusive |-> s, end_frame_inclusive |-> e, image |-> img,
     delta_x_from_center |-> dx, delta_y_from_center |-> dy]

\* two windows: a square glyph, then a ragged one shifted left and up
AnimShort == << AnimationWindow(0, 1, Glyph3, 0, 0),
                AnimationWindow(2, 2, GlyphRagged, -1, -2) >>
\* spec section 8, scenario 6
AnimE2E   == << AnimationWindow(0, 9, Glyph3, 0, 0),
                AnimationWindow(10, 19, Glyph3, 0, -2) >>
\* no window holds frame 1
AnimGap   == << AnimationWindow(0, 0, Glyph3, 0, 0),
                AnimationWindow(2, 2, GlyphRagged, -1, -2) >>

Animations == {AnimShort}

\* terminal sizes <<columns, rows>> the real terminal takes
Sizes == { <<80, 24>>, <<80, 10>>, <<46, 11>>, <<30, 5>> }

(* ------------------------------- state -------------------------------- *)
VARIABLES
    pc,               \* position of the main thread, "done" after print_in_box
    result,           \* outcome of print_in_box: "none", "Ok", "Err", "panic", "abort"
    proc,             \* "running", "exited", "killed"
    hpc,              \* Ctrl-C handler thread: "idle", "show", "exit", "dead", "done"
    spawned,          \* the task that registers the handler is queued
    registered,       \* ctrlc::set_handler has run
    sigints,          \* interrupts delivered so far
    sigWhileHidden,   \* an interrupt arrived while the cursor was hidden
    cursorVisible,    \* the terminal's cursor-visible flag
    rw, rh,           \* real terminal size
    cy, sy,           \* cursor row, saved cursor row (columns are 0 at every save)
    events,           \* pending terminal events
    resizes, keys,    \* environment counters
    message,          \* screen cells <<column, row>> that show a character of
                      \* the size-error message
    delivered,        \* size carried by the last Resize event queued, or the
                      \* size terminal::size returned if none was queued since
    animation,        \* the windows being played
    w, h,             \* known terminal size
    frame,
    is_showing_error,
    older_image_drawn_area,
    tick,             \* what the current tick has done so far
    log,              \* one record per completed tick
    build,            \* integer overflow of the build: "any", "checked", "wrapping"
    failedOp,         \* the first terminal operation that failed, "none" if none
    curr_position_of_cursor,  \* row read back at ui.rs:329, -1 before it
    final_move,       \* target row of the MoveTo after the loop, -1 before it
    replays,          \* calls of draw_animation_in_center_of_box after the first
    args,             \* arguments of the function under call, by name
    ret,              \* what that function returned, "none" before it returns
    gen,              \* the locals of generate_pet_status_animation
    cli               \* a command under way: the config in memory and on disk,
                      \* the requests sent, the runs of the command body

vars == << pc, result, proc, hpc, spawned, registered, sigints, sigWhileHidden,
           cursorVisible, rw, rh, cy, sy, events, resizes, keys, animation,
           w, h, frame, is_showing_error, older_image_drawn_area, tick, log,
           build, failedOp, curr_position_of_cursor, final_move, replays,
           args, ret, delivered, message, gen, cli >>

procVars == << proc, hpc, spawned, registered, sigints, sigWhileHidden >>
ioVars   == << rw, rh, events, resizes, keys, delivered >>
envVars  == << ioVars, message >>
loopVars == << w, h, frame, is_showing_error, older_image_drawn_area >>

(* ------------------------------ helpers ------------------------------- *)
Min(a, b) == IF a < b THEN a ELSE b
Max(a, b) == IF a > b THEN a ELSE b

\* the terminal keeps the cursor on the screen
Clamp(y, rows) == Max(0, Min(y, rows - 1))

\* rows a text of len cells takes on a terminal of cols columns
RowsOf(len, cols) == (len + cols - 1) \div cols

\* the screen cells <<column, row>> a text of len cells takes when it is
\* printed from (col, row) on a cols x rows terminal: the text wraps at the
\* right edge and stays on the last row at the bottom
WriteCells(col, row, len, cols, rows) ==
    { << (col + k) % cols, Clamp(row + (col + k) \div cols, rows) >> :
        k \in 0..len - 1 }

\* the cell MoveTo(x, y) puts the cursor on
MoveTo(x, y, cols, rows) == << Min(x, cols - 1), Clamp(y, rows) >>

SatSub(a, b) == IF a < b THEN 0 ELSE a - b
SatAddSigned(a, d) == Max(0, Min(U16_MAX, a + d))
Wrap16(n) == n % (U16_MAX + 1)

\* a string is the sequence of its characters; "U+00E9" is a character of two
\* bytes in UTF-8, every other character used here is one byte
Utf8Len(c) == IF c = "U+00E9" THEN 2 ELSE 1

RECURSIVE ByteLen(_)
\* str::len: the length in bytes
ByteLen(s) == IF s = <<>> THEN 0 ELSE Utf8Len(Head(s)) + ByteLen(Tail(s))

max_number_of_frames == animation[Len(animation)].end_frame_inclusive + 1

EmptyTick ==
    [kw |-> 0, kh |-> 0, under |-> FALSE, err |-> FALSE, border |-> FALSE,
     boxTop |-> -1,
     rendered |-> -1, win |-> 0, area |-> NoArea, erase |-> {},
     olderBefore |-> NoArea,
     drained |-> <<0, 0>>,
     bcols |-> 0, bend |-> -1, scrolled |-> 0, drawn |-> {}, blanked |-> {}]


(* ------------------- pure parts of the render closure ------------------ *)
\* a size test that lets the threshold itself pass
Undersized_strict(pw, ph) == pw < BOX_WIDTH \/ ph < BOX_HEIGHT

\* ui.rs:239 and ui.rs:323, the size test
Undersized(pw, ph) == pw <= BOX_WIDTH \/ ph <= BOX_HEIGHT

\* a scan that leaves out the first frame of every window
FindWindow_open(windows, f) ==
    LET hits == { i \in 1..Len(windows) :
                    /\ f > windows[i].start_frame_inclusive
                    /\ f <= windows[i].end_frame_inclusive }
    IN  IF hits = {} THEN 0 ELSE CHOOSE i \in hits : \A j \in hits : i <= j

\* a scan that falls back on the first window when none holds f
FindWindow_first(windows, f) ==
    LET hits == { i \in 1..Len(windows) :
                    /\ f >= windows[i].start_frame_inclusive
                    /\ f <= windows[i].end_frame_inclusive }
    IN  IF hits = {} THEN 1 ELSE CHOOSE i \in hits : \A j \in hits : i <= j

\* ui.rs:57-67, the linear scan: index of the first window holding f, 0 if none
FindWindow(windows, f) ==
    LET hits == { i \in 1..Len(windows) :
                    /\ f >= windows[i].start_frame_inclusive
                    /\ f <= windows[i].end_frame_inclusive }
    IN  IF hits = {} THEN 0 ELSE CHOOSE i \in hits : \A j \in hits : i <= j

\* ui.rs:146-147, width and height of the padded image: the rows of img are
\* measured by str::len, in bytes
MaxWidth(img) ==
    IF Len(img) = 0 THEN 0
    ELSE CHOOSE m \in { ByteLen(img[r]) : r \in 1..Len(img) } :
             \A r \in 1..Len(img) : ByteLen(img[r]) <= m
MaxHeight(img) == Len(img)

\* ui.rs:77-79
StartX(box_width, max_width, dx) ==
    SatAddSigned(SatSub(box_width \div 2, Wrap16(max_width) \div 2), dx)

\* an origin that ignores the window's vertical offset
StartY_nodelta(curr_cursor_y, box_height, max_height, dy) ==
    SatSub(Wrap16(curr_cursor_y + box_height \div 2), Wrap16(max_height) \div 2)

\* ui.rs:80-82; the sum curr_cursor_y + box_height / 2 is a plain u16 addition
StartYOverflows(curr_cursor_y, box_height) ==
    curr_cursor_y + box_height \div 2 > U16_MAX
StartY(curr_cursor_y, box_height, max_height, dy) ==
    SatAddSigned(SatSub(Wrap16(curr_cursor_y + box_height \div 2),
                        Wrap16(max_height) \div 2), dy)

\* ui.rs:131-136
ImageDrawnArea(x, y, wd, ht) ==
    [start_x |-> x, start_y |-> y, width |-> wd, height |-> ht]

\* ui.rs:293-303: the u16 sums of the erase pass that a checked build traps.
\* The bounds of the two ranges are computed on entry; the sums of the test
\* are computed per cell, left to right, and `||` skips the rest once a
\* disjunct is true
EraseOverflows(old, new) ==
    \/ old.start_y + old.height > U16_MAX
    \/ /\ old.height > 0
       /\ old.start_x + old.width > U16_MAX
    \/ \E x \in old.start_x .. old.start_x + old.width - 1 :
       \E y \in old.start_y .. old.start_y + old.height - 1 :
          /\ x >= new.start_x
          /\ \/ new.start_x + new.width > U16_MAX
             \/ /\ x < new.start_x + new.width
                /\ y >= new.start_y
                /\ new.start_y + new.height > U16_MAX

\* ui.rs:291-303, areas_to_clear
EraseCells(old, new) ==
    { c \in (old.start_x .. Wrap16(old.start_x + old.width) - 1)
              \X (old.start_y .. Wrap16(old.start_y + old.height) - 1) :
        \/ c[1] < new.start_x
        \/ c[1] >= Wrap16(new.start_x + new.width)
        \/ c[2] < new.start_y
        \/ c[2] >= Wrap16(new.start_y + new.height) }

\* the cell the erase pass writes last (rows outer, columns inner)
LastCell(cells) ==
    CHOOSE c \in cells : \A d \in cells : d[2] < c[2] \/ (d[2] = c[2] /\ d[1] <= c[1])

\* ui.rs:290-303 for a build b: the cells queued for blanking, or the panic
\* of an overflowing sum
areas_to_clear(old, new, b) ==
    IF EraseOverflows(old, new) /\ b = "checked" THEN [kind |-> "panic"]
    ELSE [kind |-> "ok", cells |-> EraseCells(old, new)]

\* a loop that advances by two
NextFrame_skip(f) == f + 2

\* ui.rs:319
NextFrame(f) == f + 1

\* an exit that always steps over a box
ExitDy_box(pw, ph) == BOX_HEIGHT

\* ui.rs:322-325
ExitDy(pw, ph) == IF Undersized(pw, ph) THEN ERR_DY ELSE BOX_HEIGHT


(* --------------------------- colour tags ------------------------------ *)
\* characters colour tags are made of: the marker, a hex digit, a letter
\* that is no hex digit, a sign, a two-byte character
TagChars == {"#", "a", "G", "+", "U+00E9"}
Tags == UNION { [1..n -> TagChars] : n \in 0..MaxTagLen }

\* byte offset of the k-th character (k = Len(s) + 1: the end of the string)
ByteOffset(s, k) == ByteLen(SubSeq(s, 1, k - 1))

\* str::is_char_boundary
IsCharBoundary(s, b) == \E k \in 1..Len(s) + 1 : ByteOffset(s, k) = b

\* &s[a..b] on boundaries a <= b: the characters that start in [a, b)
Slice(s, a, b) ==
    LET ka == CHOOSE k \in 1..Len(s) + 1 : ByteOffset(s, k) = a
        kb == CHOOSE k \in 1..Len(s) + 1 : ByteOffset(s, k) = b
    IN  SubSeq(s, ka, kb - 1)

HexLower == << "0", "1", "2", "3", "4", "5", "6", "7", "8", "9",
               "a", "b", "c", "d", "e", "f" >>
HexUpper == << "0", "1", "2", "3", "4", "5", "6", "7", "8", "9",
               "A", "B", "C", "D", "E", "F" >>
\* char::to_digit(16)
IsHexDigit(c) == \E i \in 1..16 : HexLower[i] = c \/ HexUpper[i] = c
HexValue(c) == (CHOOSE i \in 1..16 : HexLower[i] = c \/ HexUpper[i] = c) - 1

RECURSIVE DigitsValue(_)
DigitsValue(ds) ==
    IF ds = <<>> THEN 0
    ELSE 16 * DigitsValue(SubSeq(ds, 1, Len(ds) - 1)) + HexValue(ds[Len(ds)])

\* u8::from_str_radix(s, 16): an optional "+" and then hex digits whose
\* value fits a byte; -1 stands for Err
from_str_radix(s) ==
    IF s = <<>> THEN -1
    ELSE IF Len(s) = 1 /\ s[1] \in {"+", "-"} THEN -1
    ELSE LET ds == IF s[1] = "+" THEN Tail(s) ELSE s
         IN  IF \E i \in 1..Len(ds) : ~IsHexDigit(ds[i]) THEN -1
             ELSE IF DigitsValue(ds) > 255 THEN -1
             ELSE DigitsValue(ds)

\* ui.rs:37-39: one group &hex[a..b] parsed as a byte; slicing off a character
\* boundary panics
HexGroup(hex, a, b) ==
    IF ~IsCharBoundary(hex, a) \/ ~IsCharBoundary(hex, b) THEN "panic"
    ELSE IF from_str_radix(Slice(hex, a, b)) = -1 THEN "err"
    ELSE "ok"
GroupValue(hex, a, b) == from_str_radix(Slice(hex, a, b))

\* ui.rs:32-41
hex_to_rgb(hex) ==
    IF hex = <<>> \/ hex[1] # "#" \/ ByteLen(hex) # 7 THEN [kind |-> "None"]
    ELSE IF HexGroup(hex, 1, 3) # "ok" THEN
            [kind |-> IF HexGroup(hex, 1, 3) = "panic" THEN "panic" ELSE "None"]
    ELSE IF HexGroup(hex, 3, 5) # "ok" THEN
            [kind |-> IF HexGroup(hex, 3, 5) = "panic" THEN "panic" ELSE "None"]
    ELSE IF HexGroup(hex, 5, 7) # "ok" THEN
            [kind |-> IF HexGroup(hex, 5, 7) = "panic" THEN "panic" ELSE "None"]
    ELSE [kind |-> "Some", r |-> GroupValue(hex, 1, 3),
          g |-> GroupValue(hex, 3, 5), b |-> GroupValue(hex, 5, 7)]

\* ui.rs:105-111: the character as it is printed
styled(ch, hex) ==
    IF hex = <<>> THEN [kind |-> "raw", ch |-> ch]
    ELSE IF hex_to_rgb(hex).kind = "panic" THEN [kind |-> "panic"]
    ELSE IF hex_to_rgb(hex).kind = "Some"
         THEN [kind |-> "fg", ch |-> ch, rgb |-> hex_to_rgb(hex)]
    ELSE [kind |-> "raw", ch |-> ch]


(* ------------------------- the frame compositor ------------------------ *)
\* characters window images are made of: a letter, a two-byte character and
\* the line feed
ImageChars == {"a", "U+00E9", "LF"}
Images == UNION { [1..n -> ImageChars] : n \in 0..MaxImageLen }

\* colour grids: up to two rows of 0, 1 or 4 tags, each tag named by its place
ColourNames == << << "c11", "c12", "c13", "c14" >>,
                  << "c21", "c22", "c23", "c24" >> >>
ColourGrids ==
    UNION { { [r \in 1..nr |-> SubSeq(ColourNames[r], 1, lens[r])] :
                lens \in [1..nr -> {0, 1, 4}] } : nr \in 0..2 }

RECURSIVE Lines(_)
\* str::lines: the rows between line feeds; a final line feed adds no row
Lines(s) ==
    IF s = <<>> THEN <<>>
    ELSE IF \A k \in 1..Len(s) : s[k] # "LF" THEN << s >>
    ELSE LET k == CHOOSE i \in 1..Len(s) :
                      s[i] = "LF" /\ \A j \in 1..i - 1 : s[j] # "LF"
         IN  << SubSeq(s, 1, k - 1) >> \o Lines(SubSeq(s, k + 1, Len(s)))

RECURSIVE Join(_)
\* [String]::join("\n")
Join(rows) ==
    IF rows = <<>> THEN <<>>
    ELSE IF Len(rows) = 1 THEN rows[1]
    ELSE rows[1] \o << "LF" >> \o Join(Tail(rows))

\* str::repeat, vec![x; n]
Repeat(x, n) == [i \in 1..n |-> x]

\* ui.rs:154
LeftPad(max_width, line_len) == (max_width - line_len) \div 2

\* ui.rs:157-165
FaceLine(line, max_width, fill) ==
    Repeat(fill, LeftPad(max_width, ByteLen(line))) \o line
      \o Repeat(fill, max_width - ByteLen(line) - LeftPad(max_width, ByteLen(line)))

\* Vec::resize
Resize_vec(v, n, x) == [i \in 1..n |-> IF i <= Len(v) THEN v[i] ELSE x]

\* ui.rs:169-177
ColourLine(line, input_colours, max_width, default) ==
    Resize_vec(Repeat(default, LeftPad(max_width, ByteLen(line)))
                 \o [j \in 1..ByteLen(line) |->
                        IF j <= Len(input_colours) THEN input_colours[j] ELSE default],
               max_width, default)

\* ui.rs:139-187
pad_image_and_colours(image, colours, padding_char, default_colour) ==
    LET lines      == Lines(image)
        max_width  == MaxWidth(lines)
        max_height == MaxHeight(lines)
    IN  [image   |-> Join([i \in 1..max_height |->
                              FaceLine(lines[i], max_width, padding_char)]),
         colours |-> [i \in 1..max_height |->
                        ColourLine(lines[i],
                                   IF i <= Len(colours) THEN colours[i] ELSE <<>>,
                                   max_width, default_colour)],
         width   |-> max_width,
         height  |-> max_height]

\* ui.rs:91-137: the padded image is coloured row by row, printed from the
\* position read back after MoveTo(start_x, start_y), and measured again.
\* A character takes one cell; the width of the area is the longest row in
\* bytes. The rows are printed before the area is built
draw_image_starting_at(image, colours, start_x, start_y, cols, rows) ==
    LET lines == Lines(image)
        orig  == MoveTo(start_x, start_y, cols, rows)
        cells == UNION { WriteCells(MoveTo(orig[1], orig[2] + (i - 1), cols, rows)[1],
                                    MoveTo(orig[1], orig[2] + (i - 1), cols, rows)[2],
                                    Len(lines[i]), cols, rows) :
                           i \in 1..Len(lines) }
    IN  IF \E i \in 1..Len(lines) : i > Len(colours)
        THEN [kind |-> "panic", at |-> "colour_row", cells |-> {}]
        ELSE IF \E i \in 1..Len(lines) : Len(lines[i]) > Len(colours[i])
        THEN [kind |-> "panic", at |-> "colour_cell", cells |-> {}]
        ELSE IF lines = <<>>
        THEN [kind |-> "panic", at |-> "max_width", cells |-> cells]
        ELSE [kind |-> "ok", cells |-> cells,
              area |-> ImageDrawnArea(start_x, start_y,
                                      Wrap16(MaxWidth(lines)), Wrap16(Len(lines)))]

(* ------------------ http_mocking.rs: the mock animation ---------------- *)
\* http_mocking.rs:30-39, the fields of the mock pet the animation reads
PET == [hunger |-> 40, happiness |-> 40]

\* http_mocking.rs:179-180
GEN_FPS == 30
TOTAL_FRAMES == 100

\* Option<T>: None is the empty sequence, Some(x) the sequence of x
None == <<>>
Some(x) == << x >>

\* http_mocking.rs:181-190, the locals before the loop
GenStart ==
    [windows |-> <<>>, curr_window_start |-> 0, curr_frame |-> 0,
     previous_delta_x_from_center |-> 0, previous_delta_y_from_center |-> 0,
     previous_image |-> None, previous_colours |-> None,
     total_jumps |-> 0, last_jump_frame |-> 0]

\* http_mocking.rs:253-321: the face and its colours for one frame
get_pet_status_animation_for_frame(pet, curr_frame, is_in_the_air, is_done_jumping) ==
    LET ear_colour == "#0000ff"
        eye_colour == IF pet.happiness < 20 THEN "#ff0000"
                      ELSE IF pet.happiness < 70 THEN "#0000ff" ELSE "#00ff00"
        eyes0 == IF pet.happiness < 20 THEN "x.x"
                 ELSE IF pet.happiness < 70 THEN "o.o" ELSE "^.^"
        eyes1 == IF is_done_jumping /\ curr_frame % 40 = 0 /\ curr_frame # 0
                 THEN "-.-" ELSE eyes0
        eyes  == IF is_in_the_air THEN "-.-" ELSE eyes1
        tongue_colour == "#ff0000"
        tongue == IF pet.hunger < 20 THEN "U"
                  ELSE IF pet.hunger < 70 THEN "-" ELSE "~"
    IN  [image   |-> << << "/\\_/\\" >>, << "( ", eyes, " )" >>,
                        << "=  ", tongue, "  =" >> >>,
         colours |-> << << ear_colour, ear_colour, ear_colour, ear_colour, "" >>,
                        << "", "", eye_colour, "", eye_colour >>,
                        << "", "", "", tongue_colour >> >>]

\* a jump starts on this frame (http_mocking.rs:193, the else branch)
JumpStarts(g) ==
    ~(g.curr_frame = 0 \/ g.curr_frame % 15 # 0 \/ g.total_jumps >= 3)

\* http_mocking.rs:193-207
DeltaY(g) ==
    IF ~JumpStarts(g)
    THEN IF g.curr_frame > 1 /\ g.curr_frame - g.last_jump_frame <= 3
         THEN IF g.curr_frame - g.last_jump_frame = 1
              THEN g.previous_delta_y_from_center - 1
              ELSE g.previous_delta_y_from_center
         ELSE Min(0, g.previous_delta_y_from_center + 2)
    ELSE g.previous_delta_y_from_center - 1

\* a window that ends on the frame that starts the next one
WindowEnd_late(curr_frame) == curr_frame

\* http_mocking.rs:226 and http_mocking.rs:243: the last frame of the window
\* that is pushed
WindowEnd(curr_frame) == curr_frame - 1

\* http_mocking.rs:224-231 and http_mocking.rs:241-248
PushedWindow(g) ==
    [start_frame_inclusive |-> g.curr_window_start,
     end_frame_inclusive   |-> WindowEnd(g.curr_frame),
     image                 |-> g.previous_image[1],
     colours               |-> g.previous_colours[1],
     delta_x_from_center   |-> g.previous_delta_x_from_center,
     delta_y_from_center   |-> g.previous_delta_y_from_center]

\* http_mocking.rs:192-238, one turn of the loop
GenLoopBody(g) ==
    LET delta_x_from_center == 0
        delta_y_from_center == DeltaY(g)
        total_jumps     == IF JumpStarts(g) THEN g.total_jumps + 1 ELSE g.total_jumps
        last_jump_frame == IF JumpStarts(g) THEN g.curr_frame ELSE g.last_jump_frame
        face == get_pet_status_animation_for_frame(PET, g.curr_frame,
                                                   delta_y_from_center < 0,
                                                   total_jumps >= 3)
        g1   == [g EXCEPT !.total_jumps = total_jumps,
                          !.last_jump_frame = last_jump_frame]
    IN  IF /\ g.previous_image # None /\ g.previous_colours # None
           /\ g.previous_delta_x_from_center = delta_x_from_center
           /\ g.previous_delta_y_from_center = delta_y_from_center
           /\ g.previous_image = Some(face.image)
           /\ g.previous_colours = Some(face.colours)
        THEN [g1 EXCEPT !.curr_frame = g.curr_frame + 1]
        ELSE [g1 EXCEPT
                !.windows = IF g.previous_image # None /\ g.previous_colours # None
                            THEN Append(g.windows, PushedWindow(g))
                            ELSE g.windows,
                !.previous_delta_x_from_center = delta_x_from_center,
                !.previous_delta_y_from_center = delta_y_from_center,
                !.curr_window_start = g.curr_frame,
                !.previous_image = Some(face.image),
                !.previous_colours = Some(face.colours),
                !.curr_frame = g.curr_frame + 1]

(* ------------------- auth.rs, pet.rs: command wrappers ----------------- *)
\* config.rs:10-23: the config of a logged-in user and of no user
User1 == [username |-> "u1", email |-> "u1@example.org", token |-> "t1"]
UserInfo_default == [username |-> "", email |-> "", token |-> ""]
Config(user, repos) == [user |-> user, repos |-> repos]

\* no command is under way
NoCli == [config |-> Config(None, <<>>), disk |-> Config(None, <<>>),
          requests |-> 0, body |-> 0]

\* CommandResult
OkResult == [kind |-> "Ok", msg |-> ""]
ErrResult(msg) == [kind |-> "Err", msg |-> msg]

\* auth.rs:48-52, Display of AuthError::NotLoggedIn
NOT_LOGGED_IN == "Please login first using 'pet login'"

\* a check that hands out an empty user when none is logged in
require_auth_default(config) ==
    IF config.user = None THEN [kind |-> "Ok", user |-> UserInfo_default, msg |-> ""]
    ELSE [kind |-> "Ok", user |-> config.user[1], msg |-> ""]

\* auth.rs:13-19
require_auth(config) ==
    IF config.user = None THEN [kind |-> "Err", user |-> UserInfo_default,
                                msg |-> NOT_LOGGED_IN]
    ELSE [kind |-> "Ok", user |-> config.user[1], msg |-> ""]

\* config.rs:61-71: Config::save writes the config file, or fails and leaves it
Save(c, config, ok) == [c EXCEPT !.config = config,
                                 !.disk = IF ok THEN config ELSE c.disk]

\* the commands of main.rs:417-426 that are modelled, by wrapper
AuthCommands == {"Logout", "Whoami"}
PetCommands  == {"Play", "AddRepo", "RemoveRepo"}
RepoPath == "r1"

\* what a request can come to: no response, or a response with a status
Responses == {"send_error", "200", "401", "404", "500"}

(* -------------------------------- Init -------------------------------- *)
\* the state at the call of draw_animation_in_center_of_box
Entry(start, anims, sizes) ==
    /\ pc = start /\ result = "none" /\ proc = "running" /\ hpc = "idle"
    /\ spawned = FALSE /\ registered = FALSE
    /\ sigints = 0 /\ sigWhileHidden = FALSE
    /\ cursorVisible = TRUE
    /\ \E s \in sizes : rw = s[1] /\ rh = s[2]
    /\ cy \in {0, rh - 1}
    /\ sy = 0
    /\ events = <<>> /\ resizes = 0 /\ keys = 0
    /\ delivered = <<0, 0>> /\ message = {}
    /\ animation \in anims
    /\ w = 0 /\ h = 0 /\ frame = 0
    /\ is_showing_error = FALSE
    /\ older_image_drawn_area = NoArea
    /\ tick = EmptyTick /\ log = <<>>
    /\ build = "any" /\ failedOp = "none"
    /\ curr_position_of_cursor = -1 /\ final_move = -1
    /\ replays = 0
    /\ gen = GenStart

\* no function is called on its own
NoCall == args = [fn |-> "none"] /\ ret = "none" /\ cli = NoCli

\* one playback
Init == Entry("hide", Animations, Sizes) /\ NoCall

\* the process from the start of main
InitMain == Entry("main", Animations, Sizes) /\ NoCall

\* the two-window animation of ten frames each on an 80x24 terminal
InitE2E == Entry("hide", {AnimE2E}, { <<80, 24>> }) /\ NoCall

(* ----------------------- exits of print_in_box ------------------------ *)
\* a guard that never shows the cursor
final_cleanup_skipped(visible) == visible

\* ui.rs:199-201: the cursor flag after a Show that succeeded
final_cleanup_for_terminal(visible) == TRUE

\* ui.rs:193-197: stdout_container is dropped on every exit of print_in_box,
\* by return or by unwinding. The Show is written and unwrapped: when it
\* fails the drop panics (during unwinding: a second panic, the process
\* aborts) and the cursor flag stays as it was.
DropGuard(res, op) ==
    /\ pc' = "done"
    /\ \/ /\ cursorVisible' = final_cleanup_for_terminal(cursorVisible)
          /\ result' = res
          /\ failedOp' = op
       \/ /\ UNCHANGED cursorVisible
          /\ result' = IF res = "panic" THEN "abort" ELSE "panic"
          /\ failedOp' = IF op = "none" THEN "show" ELSE op

\* `?` on a failed terminal operation: return Err
IoErr(op) ==
    /\ DropGuard("Err", op)
    /\ UNCHANGED << procVars, envVars, loopVars, cy, sy, animation, args, gen, cli, ret, replays, tick, log,
                    build, final_move, curr_position_of_cursor >>

\* a panic unwinds through print_in_box
Panic(op, b) ==
    /\ DropGuard("panic", op) /\ build' = b
    /\ UNCHANGED << procVars, envVars, loopVars, cy, sy, animation, args, gen, cli, ret, replays, tick, log,
                    final_move, curr_position_of_cursor >>

Running == proc = "running"

(* --------------------------- main.rs: main ---------------------------- *)
\* main.rs:394-401: the task that will call ctrlc::set_handler is spawned on the
\* current_thread runtime; it runs only when the main task suspends
SpawnHandlerTask ==
    /\ Running /\ pc = "main"
    /\ spawned' = TRUE /\ pc' = "await"
    /\ UNCHANGED << result, proc, hpc, registered, sigints, sigWhileHidden,
                    cursorVisible, envVars, cy, sy, animation, args, gen, cli, ret, replays, loopVars, tick,
                    log, build, failedOp, final_move, curr_position_of_cursor >>

\* the requests before the playback (pet.rs:52, main.rs:102): a request the
\* MockingMiddleware answers completes without suspending the main task, a
\* request sent to the network suspends it and the spawned task runs
AwaitRequests ==
    /\ Running /\ pc = "await"
    /\ \E suspended \in BOOLEAN :
          registered' = (registered \/ (spawned /\ suspended))
    /\ pc' = "hide"
    /\ UNCHANGED << result, proc, hpc, spawned, sigints, sigWhileHidden,
                    cursorVisible, envVars, cy, sy, animation, args, gen, cli, ret, replays, loopVars, tick,
                    log, build, failedOp, final_move, curr_position_of_cursor >>

(* ------------------------- ui.rs: print_in_box ------------------------ *)
\* ui.rs:217-218
Hide ==
    /\ Running /\ pc = "hide"
    /\ \/ /\ cursorVisible' = FALSE /\ pc' = "save"
          /\ UNCHANGED << result, procVars, envVars, cy, sy, animation, args, gen, cli, ret, replays,
                          loopVars, tick, log, build, failedOp, final_move, curr_position_of_cursor >>
       \/ IoErr("hide")

\* ui.rs:219-221
SavePosition ==
    /\ Running /\ pc = "save"
    /\ \/ /\ sy' = cy /\ pc' = "size"
          /\ UNCHANGED << result, procVars, envVars, cursorVisible, cy,
                          animation, args, gen, cli, ret, replays, loopVars, tick, log, build, failedOp,
                          final_move, curr_position_of_cursor >>
       \/ IoErr("save")

\* a previous drawn area that outlives the call
InitialArea_stale(prev) == prev

\* ui.rs:225: the previous drawn area at the start of a call
InitialArea(prev) == NoArea

\* ui.rs:222-225: terminal::size().unwrap() and the locals of the loop
TerminalSize ==
    /\ Running /\ pc = "size"
    /\ \/ /\ w' = rw /\ h' = rh
          /\ delivered' = <<rw, rh>>
          /\ frame' = 0
          /\ is_showing_error' = FALSE
          /\ older_image_drawn_area' = InitialArea(older_image_drawn_area)
          /\ pc' = "loop"
          /\ UNCHANGED << result, procVars, rw, rh, events, resizes, keys,
                          message, cursorVisible, cy, sy,
                          animation, args, gen, cli, ret, replays, tick, log, build,
                          failedOp, final_move, curr_position_of_cursor >>
       \/ Panic("size", build)

\* ui.rs:226
LoopHead ==
    /\ Running /\ pc = "loop"
    /\ IF frame < max_number_of_frames
       THEN /\ pc' = "poll"
            /\ tick' = [EmptyTick EXCEPT !.olderBefore = older_image_drawn_area]
       ELSE /\ pc' = "exit_restore"
            /\ UNCHANGED tick
    /\ UNCHANGED << result, procVars, envVars, cursorVisible, cy, sy, animation, args, gen, cli, ret, replays,
                    loopVars, log, build, failedOp, final_move, curr_position_of_cursor >>

\* ui.rs:227
Poll ==
    /\ Running /\ pc = "poll"
    /\ \/ /\ pc' = IF events # <<>> THEN "read" ELSE "restore"
          /\ tick' = IF events # <<>> THEN tick
                     ELSE [tick EXCEPT !.drained = delivered]
          /\ UNCHANGED << result, procVars, envVars, cursorVisible, cy, sy,
                          animation, args, gen, cli, ret, replays, loopVars, log, build, failedOp,
                          final_move, curr_position_of_cursor >>
       \/ IoErr("poll")

\* a loop that reads the events and keeps the size it started with
KnownAfter_ignore(ev, known) == known

\* ui.rs:228-234, the match on the event read: the known size after it
KnownAfter(ev, known) ==
    IF ev.type = "Resize" THEN <<ev.w, ev.h>> ELSE known

\* ui.rs:228-234
ReadEvent ==
    /\ Running /\ pc = "read"
    /\ \/ /\ events' = Tail(events)
          /\ w' = KnownAfter(Head(events), <<w, h>>)[1]
          /\ h' = KnownAfter(Head(events), <<w, h>>)[2]
          /\ pc' = "poll"
          /\ UNCHANGED << result, procVars, rw, rh, resizes, keys, delivered, message,
                          cursorVisible, cy, sy, animation, args, gen, cli, ret, replays, frame,
                          is_showing_error, older_image_drawn_area, tick, log,
                          build, failedOp, final_move, curr_position_of_cursor >>
       \/ IoErr("read")

\* ui.rs:236-238
RestorePosition ==
    /\ Running /\ pc = "restore"
    /\ \/ /\ cy' = Clamp(sy, rh) /\ pc' = "check"
          /\ UNCHANGED << result, procVars, envVars, cursorVisible, sy,
                          animation, args, gen, cli, ret, replays, loopVars, tick, log, build, failedOp,
                          final_move, curr_position_of_cursor >>
       \/ IoErr("restore")

\* a flag that is never reset by a rendering tick
NextErrorFlag_sticky(under) == under \/ is_showing_error

\* ui.rs:241 and ui.rs:250: the flag after the size test
NextErrorFlag(under) == under

\* ui.rs:239-241 and ui.rs:249-250
SizeCheck ==
    /\ Running /\ pc = "check"
    /\ is_showing_error' = NextErrorFlag(Undersized(w, h))
    /\ IF Undersized(w, h)
       THEN /\ tick' = [tick EXCEPT !.kw = w, !.kh = h, !.under = TRUE]
            /\ pc' = IF is_showing_error THEN "sleep" ELSE "err_save"
       ELSE /\ tick' = [tick EXCEPT !.kw = w, !.kh = h]
            /\ pc' = "border"
    /\ UNCHANGED << result, procVars, envVars, cursorVisible, cy, sy, animation, args, gen, cli, ret, replays,
                    w, h, frame, older_image_drawn_area, log, build, failedOp,
                    final_move, curr_position_of_cursor >>

\* ui.rs:242-244
ErrSave ==
    /\ Running /\ pc = "err_save"
    /\ \/ /\ sy' = cy /\ pc' = "err_print"
          /\ UNCHANGED << result, procVars, envVars, cursorVisible, cy,
                          animation, args, gen, cli, ret, replays, loopVars, tick, log, build, failedOp,
                          final_move, curr_position_of_cursor >>
       \/ IoErr("err_save")

\* the lines the screen scrolls up when the cursor goes down n rows from
\* row `row` by line feeds or by wrapping: on the last row the screen scrolls
ScrolledBy(row, n, rows) == Max(0, row + n - (rows - 1))

\* the cells left of what the screen showed after it scrolled up n lines
ScrollUp(cells, n) == { << c[1], c[2] - n >> : c \in { d \in cells : d[2] >= n } }

\* the cells a text of len characters takes when it is printed from column 0
\* and its last character comes out on row last
TextCells(last, len, cols) ==
    { c \in { << k % cols, last - ((len - 1) \div cols - k \div cols) >> :
               k \in 0..len - 1 } : c[2] >= 0 }

\* ui.rs:245-247
ErrPrint ==
    /\ Running /\ pc = "err_print"
    /\ \/ /\ tick' = [tick EXCEPT !.err = TRUE]
          /\ cy' = Clamp(cy + (ERR_LEN - 1) \div rw, rh)
          /\ message' = ScrollUp(message, ScrolledBy(cy, (ERR_LEN - 1) \div rw, rh))
                           \cup TextCells(Clamp(cy + (ERR_LEN - 1) \div rw, rh),
                                          ERR_LEN, rw)
          /\ pc' = "sleep"
          /\ UNCHANGED << result, procVars, ioVars, cursorVisible, sy,
                          animation, args, gen, cli, ret, replays, loopVars, log, build, failedOp,
                          final_move, curr_position_of_cursor >>
       \/ IoErr("err_print")


\* rows the cursor goes down while the ten border lines are printed
\* (ui.rs:251-274): the top and bottom lines wrap on a narrow terminal, the
\* side lines are two cells joined by a MoveRight
BorderRows(cols) == 2 * RowsOf(BOX_WIDTH, cols) + (BOX_HEIGHT - 2)

\* the cells the ten border lines take on a terminal of cols columns, in the
\* rows of the screen as it is when the cursor has come to rest on row bend
\* below them (ui.rs:251-274); rows above the screen have scrolled away
BorderCells(bend, cols) ==
    LET top    == bend - BorderRows(cols)
        line   == RowsOf(BOX_WIDTH, cols)
        bottom == bend - line
        full(r0) == { << k % cols, r0 + k \div cols >> : k \in 0..BOX_WIDTH - 1 }
        sides  == { << x, top + line + i >> :
                      x \in {0, Min(BOX_WIDTH - 1, cols - 1)},
                      i \in 0..BOX_HEIGHT - 3 }
    IN  { c \in full(top) \cup sides \cup full(bottom) : c[2] >= 0 }

\* the cells inside the box whose top row is top, as the loop takes it
InteriorCells(top) ==
    (1..BOX_WIDTH - 2) \X (top + 1 .. top + BOX_HEIGHT - 2)

\* ui.rs:251-274
DrawBorder ==
    /\ Running /\ pc = "border"
    /\ \/ /\ tick' = [tick EXCEPT !.border = TRUE, !.bcols = rw,
                                  !.bend = Clamp(cy + BorderRows(rw), rh),
                                  !.scrolled = ScrolledBy(cy, BorderRows(rw), rh)]
          /\ cy' = Clamp(cy + BorderRows(rw), rh)
          /\ message' = ScrollUp(message, ScrolledBy(cy, BorderRows(rw), rh))
                           \ BorderCells(Clamp(cy + BorderRows(rw), rh), rw)
          /\ pc' = "position"
          /\ UNCHANGED << result, procVars, ioVars, cursorVisible, sy,
                          animation, args, gen, cli, ret, replays, loopVars, log, build, failedOp,
                          final_move, curr_position_of_cursor >>
       \/ IoErr("border")

\* ui.rs:275 and the u16 subtraction curr_position_of_cursor.1 - BOX_HEIGHT of
\* ui.rs:278 and ui.rs:285: a checked build panics on underflow, an unchecked
\* build wraps
ReadPosition ==
    /\ Running /\ pc = "position"
    /\ \/ /\ cy >= BOX_HEIGHT
          /\ tick' = [tick EXCEPT !.boxTop = cy - BOX_HEIGHT]
          /\ pc' = "move_save"
          /\ UNCHANGED << result, procVars, envVars, cursorVisible, cy, sy,
                          animation, args, gen, cli, ret, replays, loopVars, log, build, failedOp,
                          final_move, curr_position_of_cursor >>
       \/ /\ cy < BOX_HEIGHT /\ build \in {"any", "wrapping"}
          /\ tick' = [tick EXCEPT !.boxTop = cy - BOX_HEIGHT + U16_MAX + 1]
          /\ pc' = "move_save" /\ build' = "wrapping"
          /\ UNCHANGED << result, procVars, envVars, cursorVisible, cy, sy,
                          animation, args, gen, cli, ret, replays, loopVars, log, failedOp, final_move, curr_position_of_cursor >>
       \/ /\ cy < BOX_HEIGHT /\ build \in {"any", "checked"}
          /\ Panic("underflow", "checked")
       \/ IoErr("position")

\* a saved position that stays where the playback found the cursor
SavedRow_initial(top, saved) == saved

\* ui.rs:280-282: the position saved after the move to the box top
SavedRow(top, saved) == top

\* ui.rs:276-282
MoveToBoxTop ==
    /\ Running /\ pc = "move_save"
    /\ \/ /\ cy' = Clamp(tick.boxTop, rh)
          /\ sy' = Clamp(SavedRow(tick.boxTop, sy), rh)
          /\ pc' = "render"
          /\ UNCHANGED << result, procVars, envVars, cursorVisible, animation, args, gen, cli, ret, replays,
                          loopVars, tick, log, build, failedOp, final_move, curr_position_of_cursor >>
       \/ IoErr("move_save")

\* ui.rs:119-129: the cells the rows of a padded wd x ht image take when each
\* row i is printed from MoveTo(orig_x, orig_y + i)
DrawCells(orig, wd, ht, cols, rows) ==
    UNION { WriteCells(MoveTo(orig[1], orig[2] + i, cols, rows)[1],
                       MoveTo(orig[1], orig[2] + i, cols, rows)[2],
                       wd, cols, rows) : i \in 0..ht - 1 }

\* ui.rs:283-289: the closure of draw_animation_in_center_of_box (ui.rs:52-85)
\* and draw_image_starting_at (ui.rs:91-137)
render_in_box ==
    /\ Running /\ pc = "render"
    /\ LET i       == FindWindow(animation, frame)
           win     == animation[i]
           mw      == MaxWidth(win.image)
           mh      == MaxHeight(win.image)
           sx      == StartX(BOX_WIDTH, mw, win.delta_x_from_center)
           sty     == StartY(tick.boxTop, BOX_HEIGHT, mh, win.delta_y_from_center)
           orig_y  == Clamp(sty, rh)
           orig    == MoveTo(sx, sty, rw, rh)
           drawn   == /\ tick' = [tick EXCEPT !.rendered = frame, !.win = i,
                                       !.area = ImageDrawnArea(sx, sty, mw, mh),
                                       !.drawn = DrawCells(orig, mw, mh, rw, rh)]
                      /\ message' = message \ DrawCells(orig, mw, mh, rw, rh)
                      /\ cy' = Clamp(orig_y + mh - 1, rh)
                      /\ pc' = "erase"
                      /\ UNCHANGED << result, procVars, ioVars, cursorVisible,
                                      sy, animation, args, gen, cli, ret, replays, loopVars, log, failedOp,
                                      final_move, curr_position_of_cursor >>
       IN  \/ /\ i = 0
              /\ Panic("assert", build)
           \/ /\ i # 0 /\ ~StartYOverflows(tick.boxTop, BOX_HEIGHT)
              /\ drawn /\ UNCHANGED build
           \/ /\ i # 0 /\ StartYOverflows(tick.boxTop, BOX_HEIGHT)
              /\ build \in {"any", "wrapping"}
              /\ drawn /\ build' = "wrapping"
           \/ /\ i # 0 /\ StartYOverflows(tick.boxTop, BOX_HEIGHT)
              /\ build \in {"any", "checked"}
              /\ Panic("overflow", "checked")
           \/ /\ i # 0
              /\ IoErr("render")

\* ui.rs:290-314
ErasePass ==
    /\ Running /\ pc = "erase"
    /\ LET old   == older_image_drawn_area
           cells == IF old = NoArea THEN {} ELSE EraseCells(old, tick.area)
           traps == old # NoArea /\ EraseOverflows(old, tick.area)
           done  == /\ tick' = [tick EXCEPT !.erase = cells,
                                     !.blanked = { MoveTo(c[1], c[2], rw, rh) :
                                                     c \in cells }]
                    /\ cy' = IF cells = {} THEN cy
                             ELSE Clamp(LastCell(cells)[2], rh)
                    /\ older_image_drawn_area' = tick.area
                    /\ message' = message \ { MoveTo(c[1], c[2], rw, rh) : c \in cells }
                    /\ pc' = "flush"
                    /\ UNCHANGED << result, procVars, ioVars, cursorVisible,
                                    sy, animation, args, gen, cli, ret, replays, w, h, frame,
                                    is_showing_error, log, failedOp,
                                    final_move, curr_position_of_cursor >>
       IN  \/ /\ ~traps /\ done /\ UNCHANGED build
           \/ /\ traps /\ build \in {"any", "wrapping"}
              /\ done /\ build' = "wrapping"
           \/ /\ traps /\ build \in {"any", "checked"}
              /\ Panic("overflow", "checked")
           \/ /\ cells # {}
              /\ IoErr("erase")

\* ui.rs:315
Flush ==
    /\ Running /\ pc = "flush"
    /\ \/ /\ pc' = "sleep"
          /\ UNCHANGED << result, procVars, envVars, cursorVisible, cy, sy,
                          animation, args, gen, cli, ret, replays, loopVars, tick, log, build, failedOp,
                          final_move, curr_position_of_cursor >>
       \/ IoErr("flush")

\* what the log keeps of a completed tick
TickEntry(f, t) ==
    [f |-> f, kw |-> t.kw, kh |-> t.kh, under |-> t.under, err |-> t.err,
     border |-> t.border, rendered |-> t.rendered, win |-> t.win,
     boxTop |-> t.boxTop, scrolled |-> t.scrolled, drained |-> t.drained,
     area |-> t.area, erased |-> Cardinality(t.erase),
     olderKept |-> (t.olderBefore = older_image_drawn_area)]

\* ui.rs:318-319
SleepAndAdvance ==
    /\ Running /\ pc = "sleep"
    /\ log' = Append(log, TickEntry(frame, tick))
    /\ frame' = NextFrame(frame)
    /\ pc' = "loop"
    /\ UNCHANGED << result, procVars, envVars, cursorVisible, cy, sy, animation, args, gen, cli, ret, replays,
                    w, h, is_showing_error, older_image_drawn_area, tick, build,
                    failedOp, final_move, curr_position_of_cursor >>

\* ui.rs:326-328
ExitRestore ==
    /\ Running /\ pc = "exit_restore"
    /\ \/ /\ cy' = Clamp(sy, rh) /\ pc' = "exit_position"
          /\ UNCHANGED << result, procVars, envVars, cursorVisible, sy,
                          animation, args, gen, cli, ret, replays, loopVars, tick, log, build, failedOp,
                          final_move, curr_position_of_cursor >>
       \/ IoErr("exit_restore")

\* ui.rs:329
ExitPosition ==
    /\ Running /\ pc = "exit_position"
    /\ \/ /\ curr_position_of_cursor' = cy
          /\ pc' = "exit_move"
          /\ UNCHANGED << result, procVars, envVars, cursorVisible, cy, sy,
                          animation, args, gen, cli, ret, replays, loopVars, tick, log, build, failedOp,
                          final_move >>
       \/ IoErr("exit_position")

\* ui.rs:322-325 and ui.rs:330-333
ExitMove ==
    /\ Running /\ pc = "exit_move"
    /\ \/ /\ final_move' = curr_position_of_cursor + ExitDy(w, h)
          /\ cy' = Clamp(curr_position_of_cursor + ExitDy(w, h), rh)
          /\ DropGuard("Ok", "none")
          /\ UNCHANGED << procVars, envVars, sy, animation, args, gen, cli, ret, replays, loopVars, tick,
                          log, build, curr_position_of_cursor >>
       \/ IoErr("exit_move")

\* the caller plays an animation again after a playback that returned Ok
\* (ui.rs:50-51): print_in_box starts anew, its locals are set at ui.rs:222-225
PlayAgain ==
    /\ Running /\ pc = "done" /\ result = "Ok" /\ replays < MaxReplays
    /\ replays' = replays + 1
    /\ pc' = "hide" /\ result' = "none"
    /\ tick' = EmptyTick /\ log' = <<>>
    /\ curr_position_of_cursor' = -1 /\ final_move' = -1
    /\ UNCHANGED << procVars, envVars, cursorVisible, cy, sy, animation, args, gen, cli,
                    ret, loopVars, build, failedOp >>

(* ---------------------------- environment ----------------------------- *)
\* the playback has queried the size and still owns the terminal
Playing ==
    pc \in {"loop", "poll", "read", "restore", "check", "err_save", "err_print",
            "border", "position", "move_save", "render", "erase", "flush",
            "sleep", "exit_restore", "exit_position", "exit_move"}

\* the user resizes the terminal to one of sizes: the screen changes at once,
\* the loop learns of it from the Resize event it reads at ui.rs:228-231
ResizeTo(sizes) ==
    /\ Running /\ Playing /\ resizes < MaxResizes
    /\ \E s \in sizes \ {<<rw, rh>>} :
          /\ rw' = s[1] /\ rh' = s[2]
          /\ cy' = Clamp(cy, s[2])
          /\ events' = Append(events, [type |-> "Resize", w |-> s[1], h |-> s[2]])
          /\ delivered' = s
          /\ message' = { c \in message : c[1] < s[1] /\ c[2] < s[2] }
    /\ resizes' = resizes + 1
    /\ UNCHANGED << pc, result, procVars, cursorVisible, sy, keys, animation,
                    args, gen, cli, ret, replays, loopVars, tick, log, build, failedOp,
                    final_move, curr_position_of_cursor >>

Resize == ResizeTo(Sizes)

\* resizes between a width that fits the box and one that does not
WidthSizes == { <<80, 24>>, <<45, 24>> }
ResizeWidth == ResizeTo(WidthSizes)

\* any other terminal event (ui.rs:233), delivered as the loop polls
KeyPress ==
    /\ Running /\ pc = "poll" /\ keys < MaxKeys
    /\ events' = Append(events, [type |-> "Key", w |-> 0, h |-> 0])
    /\ keys' = keys + 1
    /\ UNCHANGED << pc, result, procVars, cursorVisible, rw, rh, resizes, delivered, message,
                    cy, sy, animation, args, gen, cli, ret, replays, loopVars, tick, log, build, failedOp,
                    final_move, curr_position_of_cursor >>

\* Ctrl-C: with the handler of main.rs:395 registered its thread is woken,
\* without it the default action of the signal ends the process
Sigint ==
    /\ Running /\ sigints < MaxSigints
    /\ sigints' = sigints + 1
    /\ sigWhileHidden' = (sigWhileHidden \/ ~cursorVisible)
    /\ IF registered
       THEN /\ hpc' = IF hpc = "idle" THEN "show" ELSE hpc
            /\ UNCHANGED proc
       ELSE /\ proc' = "killed"
            /\ UNCHANGED hpc
    /\ UNCHANGED << pc, result, spawned, registered, cursorVisible, envVars, cy,
                    sy, animation, args, gen, cli, ret, replays, loopVars, tick, log, build, failedOp,
                    final_move, curr_position_of_cursor >>

\* main.rs:396-397: final_cleanup_for_terminal on the handler thread; the
\* unwrap of a failed Show ends that thread only
HandlerShow ==
    /\ Running /\ hpc = "show"
    /\ \/ /\ cursorVisible' = final_cleanup_for_terminal(cursorVisible)
          /\ hpc' = "exit"
       \/ /\ hpc' = "dead"
          /\ UNCHANGED cursorVisible
    /\ UNCHANGED << pc, result, proc, spawned, registered, sigints,
                    sigWhileHidden, envVars, cy, sy, animation, args, gen, cli, ret, replays, loopVars, tick,
                    log, build, failedOp, final_move, curr_position_of_cursor >>

\* main.rs:398: std::process::exit(1)
HandlerExit ==
    /\ Running /\ hpc = "exit"
    /\ proc' = "exited" /\ hpc' = "done"
    /\ UNCHANGED << pc, result, spawned, registered, sigints, sigWhileHidden,
                    cursorVisible, envVars, cy, sy, animation, args, gen, cli, ret, replays, loopVars, tick,
                    log, build, failedOp, final_move, curr_position_of_cursor >>

(* -------------------- the pure functions, on their own ----------------- *)
\* everything but the position, the arguments and the result of the call
calleeVars == << result, procVars, envVars, cursorVisible, cy, sy, animation,
                 loopVars, tick, log, build, failedOp, curr_position_of_cursor,
                 final_move, replays, gen, cli >>

\* the state around a call of one function: a terminal that is not in use
Call(fn, inputs) ==
    /\ Entry(fn, {AnimShort}, { <<80, 24>> }) /\ cy = 0
    /\ args \in inputs /\ ret = "none" /\ cli = NoCli

\* ui.rs:103-112: one character of a frame is colourised
InitColour == Call("styled", { [fn |-> "styled", ch |-> "X", hex |-> t] : t \in Tags })

CallStyled ==
    /\ pc = "styled"
    /\ ret' = styled(args.ch, args.hex)
    /\ pc' = "returned"
    /\ UNCHANGED << calleeVars, args >>

SpecColour == InitColour /\ [][CallStyled]_vars

\* ui.rs:290-303: the erase pass on a previous and a current drawn area.
\* The areas are those of 1x1 .. 3x3 frames around the centre of the box, of
\* a frame whose first row is 40000 bytes long drawn with delta_x 30000, and
\* of a 3x3 frame drawn from row 65534
SmallAreas ==
    { ImageDrawnArea(x, y, wd, ht) :
        x \in {20, 21, 24}, y \in {4, 6}, wd \in {1, 3}, ht \in {1, 3} }
EdgeAreas ==
    { ImageDrawnArea(30000, 5, 40000, 1), ImageDrawnArea(21, 65534, 3, 3) }
Areas == SmallAreas \cup EdgeAreas

InitErase ==
    Call("erase_call", { [fn |-> "erase", old |-> o, new |-> n] : o \in Areas, n \in Areas })

CallErase ==
    /\ pc = "erase_call"
    /\ \E b \in {"checked", "wrapping"} :
          ret' = areas_to_clear(args.old, args.new, b)
    /\ pc' = "returned"
    /\ UNCHANGED << calleeVars, args >>

SpecErase == InitErase /\ [][CallErase]_vars

\* ui.rs:73-74: the compositor as the render closure calls it, with the
\* default fill character and the default colour tag
InitPad ==
    Call("pad", { [fn |-> "pad", image |-> img, colours |-> cs] :
                    img \in Images, cs \in ColourGrids })

CallPad ==
    /\ pc = "pad"
    /\ ret' = pad_image_and_colours(args.image, args.colours, " ", "")
    /\ pc' = "returned"
    /\ UNCHANGED << calleeVars, args >>

SpecPad == InitPad /\ [][CallPad]_vars

\* ui.rs:72-84: the render closure from the compositor on, for a window
\* with no offset in a box whose top is row 0 of an 80x24 terminal
InitDraw ==
    Call("draw", { [fn |-> "draw", image |-> img, colours |-> cs] :
                     img \in Images, cs \in ColourGrids })

CallDraw ==
    /\ pc = "draw"
    /\ LET padded == pad_image_and_colours(args.image, args.colours, " ", "")
           sx     == StartX(BOX_WIDTH, padded.width, 0)
           sty    == StartY(0, BOX_HEIGHT, padded.height, 0)
       IN  ret' = draw_image_starting_at(padded.image, padded.colours,
                                         sx, sty, rw, rh) @@
                  [padded |-> padded, start_x |-> sx, start_y |-> sty]
    /\ pc' = "returned"
    /\ UNCHANGED << calleeVars, args >>

SpecDraw == InitDraw /\ [][CallDraw]_vars

\* ui.rs:53-70: the window scan and its assertion, on every list of one to
\* three windows and every frame index
WindowLists ==
    UNION { [1..n -> { AnimationWindow(st, en, Glyph3, 0, 0) :
                         st \in 0..MaxFrameIndex, en \in 0..MaxFrameIndex }] :
            n \in 1..3 }

InitScan ==
    Call("scan", { [fn |-> "scan", windows |-> ws, curr_frame |-> f] :
                     ws \in WindowLists, f \in 0..MaxFrameIndex + 1 })

CallScan ==
    /\ pc = "scan"
    /\ ret' = [kind |-> IF FindWindow(args.windows, args.curr_frame) = 0
                        THEN "panic" ELSE "found",
               i |-> FindWindow(args.windows, args.curr_frame)]
    /\ pc' = "returned"
    /\ UNCHANGED << calleeVars, args >>

SpecScan == InitScan /\ [][CallScan]_vars

\* ui.rs:76-82: the draw origin for a padded frame of max_width x max_height
\* (usize values; 65536 and 65539 do not fit the u16 they are cast to), the
\* window's offsets and the box top handed to the closure (65533 is the top
\* an unchecked build computes from a read-back row of 7)
OriginInputs ==
    { [fn |-> "origin", max_width |-> mw, max_height |-> mh,
       delta_x_from_center |-> dx, delta_y_from_center |-> dy,
       curr_cursor_y |-> top] :
        mw \in {0, 1, 3, 44, 46, 50, 65536, 65539},
        mh \in {1, 3, 10, 30},
        dx \in {-32768, -30, -1, 0, 2, 32767},
        dy \in {-32768, -30, -1, 0, 2, 32767},
        top \in {0, 3, 14, 65525, 65533} }

InitOrigin == Call("origin", OriginInputs)

CallOrigin ==
    /\ pc = "origin"
    /\ \E b \in {"checked", "wrapping"} :
          ret' = IF StartYOverflows(args.curr_cursor_y, BOX_HEIGHT) /\ b = "checked"
                 THEN [kind |-> "panic"]
                 ELSE [kind |-> "ok",
                       start_x |-> StartX(BOX_WIDTH, args.max_width,
                                          args.delta_x_from_center),
                       start_y |-> StartY(args.curr_cursor_y, BOX_HEIGHT,
                                          args.max_height,
                                          args.delta_y_from_center)]
    /\ pc' = "returned"
    /\ UNCHANGED << calleeVars, args >>

SpecOrigin == InitOrigin /\ [][CallOrigin]_vars

\* http_mocking.rs:178-251: generate_pet_status_animation, one loop turn a step
InitGenerate == Call("generate", { [fn |-> "generate"] })

GenerateLoop ==
    /\ pc = "generate" /\ gen.curr_frame < TOTAL_FRAMES
    /\ gen' = GenLoopBody(gen)
    /\ UNCHANGED << pc, result, procVars, envVars, cursorVisible, cy, sy,
                    animation, loopVars, tick, log, build, failedOp,
                    curr_position_of_cursor, final_move, replays, args, ret, cli >>

GenerateReturn ==
    /\ pc = "generate" /\ ~(gen.curr_frame < TOTAL_FRAMES)
    /\ ret' = [kind |-> "ok", fps |-> GEN_FPS,
               windows |-> Append(gen.windows, PushedWindow(gen))]
    /\ pc' = "returned"
    /\ UNCHANGED << calleeVars, args >>

NextGenerate == GenerateLoop \/ GenerateReturn

SpecGenerate == InitGenerate /\ [][NextGenerate]_vars

\* main.rs:415-441: one command run through execute_authenticated_command
\* or execute_command_if_pet_exists, on a config with or without a user
CommandInputs ==
    { [fn |-> "command", wrapper |-> wr, command |-> c,
       config |-> Config(u, rs)] :
        wr \in {"auth", "pet"}, c \in AuthCommands \cup PetCommands,
        u \in {None, Some(User1)}, rs \in {<<>>, << RepoPath >>, << "r2" >>} }

InitCommand ==
    /\ Entry("command", {AnimShort}, { <<80, 24>> }) /\ cy = 0
    /\ args \in { a \in CommandInputs :
                     (a.wrapper = "auth") = (a.command \in AuthCommands) }
    /\ ret = "none"
    /\ cli = [config |-> args.config, disk |-> args.config,
              requests |-> 0, body |-> 0]

cmdVars == << result, procVars, envVars, cursorVisible, cy, sy, animation,
              loopVars, tick, log, build, failedOp, curr_position_of_cursor,
              final_move, replays, gen, args >>

\* the command returns res
Return(res) == ret' = res /\ pc' = "returned"

\* auth.rs:69-75, and pet.rs:63 which hands the wrapped command to it
ExecuteAuthenticatedCommand ==
    /\ pc = "command"
    /\ LET user == require_auth(cli.config)
       IN  IF user.kind = "Err"
           THEN Return(ErrResult(user.msg))
           ELSE /\ pc' = IF args.wrapper = "pet" THEN "does_pet_exist" ELSE "execute"
                /\ UNCHANGED ret
    /\ UNCHANGED << cmdVars, cli >>

\* pet.rs:50-60 and does_pet_exist, pet.rs:66-92
DoesPetExist ==
    /\ pc = "does_pet_exist"
    /\ \E r \in Responses, saved \in BOOLEAN :
          LET sent == [cli EXCEPT !.requests = @ + 1]
          IN  CASE r = "send_error" ->
                     cli' = sent /\ Return(ErrResult("request failed"))
                [] r = "200" ->
                     cli' = sent /\ pc' = "execute" /\ UNCHANGED ret
                [] r = "404" ->
                     cli' = sent /\ Return(ErrResult("You do not yet have a pet!"))
                [] r = "401" ->
                     /\ cli' = Save(sent, [sent.config EXCEPT !.user = None], saved)
                     /\ Return(ErrResult(IF saved THEN "Oops! Please login again!"
                                         ELSE "IO error"))
                [] OTHER ->
                     cli' = sent /\ Return(ErrResult("Failed to get pet status"))
    /\ UNCHANGED cmdVars

\* the body of the command: do_logout (auth.rs:77-98), do_whoami_impl
\* (main.rs:94-98), PlayCommand::execute (main.rs:184-198) with play_with_pet
\* (pet.rs:260-284), add_repo_impl (main.rs:207-220) and remove_repo_impl
\* (main.rs:229-248)
ExecuteBody ==
    /\ pc = "execute"
    /\ \E r \in Responses, saved \in BOOLEAN, fine \in BOOLEAN :
          LET ran  == [cli EXCEPT !.body = @ + 1]
              sent == [ran EXCEPT !.requests = @ + 1]
              has  == \E i \in 1..Len(cli.config.repos) : cli.config.repos[i] = RepoPath
              without == SelectSeq(cli.config.repos, LAMBDA x : x # RepoPath)
          IN  CASE args.command = "Logout" ->
                     IF r = "send_error"
                     THEN cli' = sent /\ Return(ErrResult("request failed"))
                     ELSE IF r \in {"200", "401"}
                     THEN /\ cli' = Save(sent, [sent.config EXCEPT !.user = None], saved)
                          /\ Return(IF saved THEN OkResult ELSE ErrResult("IO error"))
                     ELSE cli' = sent /\ Return(ErrResult("Logout failed"))
                [] args.command = "Whoami" ->
                     cli' = ran /\ Return(OkResult)
                [] args.command = "Play" ->
                     IF r = "send_error"
                     THEN cli' = sent /\ Return(ErrResult("request failed"))
                     ELSE IF r = "200"
                     THEN cli' = sent /\ Return(IF fine THEN OkResult
                                                ELSE ErrResult("playback failed"))
                     ELSE IF r = "401"
                     THEN /\ cli' = Save(sent, [sent.config EXCEPT !.user = None], saved)
                          /\ Return(ErrResult(IF saved THEN "Oops! Please login again!"
                                              ELSE "IO error"))
                     ELSE cli' = sent /\ Return(ErrResult("Failed to get pet status"))
                [] args.command = "AddRepo" ->
                     IF ~fine
                     THEN cli' = ran /\ Return(ErrResult("not a git repository"))
                     ELSE IF has
                     THEN cli' = ran /\ Return(ErrResult("Repo already added"))
                     ELSE /\ cli' = Save(ran, [ran.config EXCEPT
                                                 !.repos = Append(@, RepoPath)], saved)
                          /\ Return(IF saved THEN OkResult ELSE ErrResult("IO error"))
                [] OTHER ->
                     IF ~has
                     THEN cli' = ran /\ Return(OkResult)
                     ELSE /\ cli' = Save(ran, [ran.config EXCEPT !.repos = without], saved)
                          /\ Return(IF saved THEN OkResult ELSE ErrResult("IO error"))
    /\ UNCHANGED cmdVars

NextCommand == ExecuteAuthenticatedCommand \/ DoesPetExist \/ ExecuteBody

SpecCommand == InitCommand /\ [][NextCommand]_vars

(* --------------------------- specifications --------------------------- *)
\* one call of draw_animation_in_center_of_box on a terminal that is resized
\* and whose operations may fail
Next ==
    \/ Hide \/ SavePosition \/ TerminalSize \/ LoopHead \/ Poll \/ ReadEvent
    \/ RestorePosition \/ SizeCheck \/ ErrSave \/ ErrPrint \/ DrawBorder
    \/ ReadPosition \/ MoveToBoxTop \/ render_in_box \/ ErasePass \/ Flush
    \/ SleepAndAdvance \/ ExitRestore \/ ExitPosition \/ ExitMove
    \/ Resize \/ KeyPress

Spec == Init /\ [][Next]_vars

\* two playbacks in one process, on a terminal whose width changes
InitTwice == Entry("hide", Animations, WidthSizes) /\ NoCall

NextTwice ==
    \/ Hide \/ SavePosition \/ TerminalSize \/ LoopHead \/ Poll \/ ReadEvent
    \/ RestorePosition \/ SizeCheck \/ ErrSave \/ ErrPrint \/ DrawBorder
    \/ ReadPosition \/ MoveToBoxTop \/ render_in_box \/ ErasePass \/ Flush
    \/ SleepAndAdvance \/ ExitRestore \/ ExitPosition \/ ExitMove
    \/ ResizeWidth \/ KeyPress
    \/ PlayAgain

SpecTwice == InitTwice /\ [][NextTwice]_vars

\* one playback of an animation whose windows leave a frame out
InitGap == Entry("hide", {AnimGap}, Sizes) /\ NoCall

SpecGap == InitGap /\ [][Next]_vars

\* the process: main, the playback and the Ctrl-C handler thread
NextMain ==
    \/ SpawnHandlerTask \/ AwaitRequests
    \/ Next
    \/ Sigint \/ HandlerShow \/ HandlerExit

SpecMain == InitMain /\ [][NextMain]_vars

\* one playback on a terminal whose size stays as it is
NextE2E ==
    \/ Hide \/ SavePosition \/ TerminalSize \/ LoopHead \/ Poll \/ ReadEvent
    \/ RestorePosition \/ SizeCheck \/ DrawBorder
    \/ ReadPosition \/ MoveToBoxTop \/ render_in_box \/ ErasePass \/ Flush
    \/ SleepAndAdvance \/ ExitRestore \/ ExitPosition \/ ExitMove
    \/ KeyPress

SpecE2E == InitE2E /\ [][NextE2E]_vars


(* ------------------------------- claims ------------------------------- *)
InWindow(win, f) ==
    f >= win.start_frame_inclusive /\ f <= win.end_frame_inclusive

\* the main thread is inside a tick (ui.rs:227-318)
InTick ==
    pc \in {"poll", "read", "restore", "check", "err_save", "err_print",
            "border", "position", "move_save", "render", "erase", "flush",
            "sleep"}

\* the terminal operations of a tick (ui.rs:227-315)
TickOps == {"poll", "read", "restore", "err_save", "err_print", "border",
            "position", "move_save", "render", "erase", "flush"}

\* C1: whenever print_in_box has hidden the cursor and returns, with Ok after
\* the last frame or with Err after a failed terminal operation, the cursor
\* is visible again.
C1_CursorVisibleOnReturn ==
    (pc = "done" /\ result \in {"Ok", "Err"}) => cursorVisible

\* C1: a playback that hid the cursor, completed a tick, failed in a later
\* tick and returned Err
C1_Witness ==
    /\ pc = "done" /\ result = "Err" /\ failedOp \in TickOps
    /\ Len(log) >= 1 /\ cursorVisible

\* C2: while the cursor is hidden the Ctrl-C handler is registered, and a
\* process that an interrupt ends after it arrived with the cursor hidden
\* ends with the cursor visible.
C2_InterruptLeavesCursorVisible ==
    /\ ~cursorVisible => registered
    /\ (sigWhileHidden /\ proc # "running") => cursorVisible

\* C3: a terminal operation that fails during a tick ends the playback at
\* once (no later step of the loop runs, nothing is retried) and print_in_box
\* returns the failure as Err.
C3_TickFailureReturnsErr ==
    failedOp \in TickOps => (pc = "done" /\ result = "Err")

\* C4: a failed query of the terminal size is returned to the caller as Err,
\* with the cursor visible.
C4_SizeFailureReturnsErr ==
    failedOp = "size" => (pc = "done" /\ result = "Err" /\ cursorVisible)

\* C5: the frame index grows by exactly one per tick, the index handed to the
\* render step is the index of its tick, and a playback that returns Ok
\* without an undersized tick has rendered exactly 0, 1, ..., N-1.
C5_FramesInOrder ==
    /\ frame = Len(log)
    /\ \A i \in 1..Len(log) :
          /\ log[i].f = i - 1
          /\ log[i].rendered \in {-1, i - 1}
    /\ InTick => tick.rendered \in {-1, frame}
    /\ (result = "Ok" /\ \A i \in 1..Len(log) : ~log[i].under) =>
          /\ Len(log) = max_number_of_frames
          /\ \A i \in 1..Len(log) : log[i].rendered = i - 1

\* C5: a playback of all frames, none undersized, that returned Ok
C5_Witness ==
    /\ result = "Ok" /\ Len(log) = max_number_of_frames
    /\ \A i \in 1..Len(log) : log[i].rendered = i - 1

\* C6: the size-error line is printed on exactly the first tick of every
\* maximal run of undersized ticks.
C6_ErrorOncePerRun ==
    /\ \A i \in 1..Len(log) :
          log[i].err <=> (log[i].under /\ (i = 1 \/ ~log[i - 1].under))
    /\ (InTick /\ tick.err) =>
          (tick.under /\ (log = <<>> \/ ~log[Len(log)].under))

\* C6: two runs of undersized ticks with a rendering tick between them, the
\* line printed at the start of each
C6_Witness ==
    /\ Len(log) >= 3
    /\ log[1].under /\ log[1].err
    /\ log[2].rendered = 1
    /\ log[3].under /\ log[3].err

\* C7: a tick whose known width is <= 45 or known height is <= 10 draws no
\* border, does not call the render step, erases nothing and leaves the
\* previous drawn area as it was.
C7_UndersizedTickDrawsNothing ==
    /\ \A i \in 1..Len(log) :
          (log[i].kw <= BOX_WIDTH \/ log[i].kh <= BOX_HEIGHT) =>
              /\ ~log[i].border /\ log[i].rendered = -1
              /\ log[i].area = NoArea /\ log[i].erased = 0
              /\ log[i].olderKept
    /\ (pc \in {"err_save", "err_print", "sleep"}
          /\ (w <= BOX_WIDTH \/ h <= BOX_HEIGHT)) =>
              /\ ~tick.border /\ tick.rendered = -1 /\ tick.erase = {}
              /\ older_image_drawn_area = tick.olderBefore

\* C7: a tick at exactly the threshold height, after a tick that drew a frame
C7_Witness ==
    \E i \in 2..Len(log) :
        /\ log[i].kh = BOX_HEIGHT /\ log[i].kw > BOX_WIDTH
        /\ log[i - 1].rendered # -1
        /\ ~log[i].border /\ log[i].olderKept

\* C8: every tick whose known size is above the threshold draws the box and
\* the window of its frame index, and unless a terminal operation fails the
\* playback returns Ok.
C8_FittingTickRenders ==
    /\ \A i \in 1..Len(log) :
          (log[i].kw > BOX_WIDTH /\ log[i].kh > BOX_HEIGHT) =>
              /\ log[i].border /\ log[i].rendered = log[i].f
              /\ log[i].win # 0 /\ InWindow(animation[log[i].win], log[i].f)
    /\ pc = "done" =>
          \/ result = "Ok"
          \/ failedOp \in TickOps \cup {"hide", "save", "size", "exit_restore",
                                        "exit_position", "exit_move", "show"}

\* C9: the MoveTo after the loop goes 10 rows below the restored position
\* when the last tick showed the box and 2 rows below it when the last tick
\* showed the size error; the size test at the exit agrees with the flag.
C9_ExitOffsetMatchesLastTick ==
    final_move # -1 =>
        /\ Len(log) = max_number_of_frames
        /\ is_showing_error = log[Len(log)].under
        /\ is_showing_error = (w <= BOX_WIDTH \/ h <= BOX_HEIGHT)
        /\ final_move = curr_position_of_cursor
                          + (IF log[Len(log)].under THEN ERR_DY ELSE BOX_HEIGHT)

\* C9: a playback whose last tick showed the size error after an earlier
\* tick had drawn the box
C9_Witness ==
    /\ final_move # -1 /\ result = "Ok"
    /\ log[Len(log)].under /\ log[1].border
    /\ final_move = curr_position_of_cursor + ERR_DY

\* the cells of rows y1..y2, columns x1..x2
Cells(x1, x2, y1, y2) == (x1..x2) \X (y1..y2)

\* C10: on an 80x24 terminal the 3x3 glyph is drawn at column 21, row
\* box_top+4 on ticks 0-9 and row box_top+2 on ticks 10-19; the erase pass
\* writes the six cells of rows box_top+5 and box_top+6 on tick 10 and
\* nothing on any other tick; the size error is never printed.
C10_EndToEnd ==
    /\ \A i \in 1..Len(log) :
          /\ ~log[i].under /\ ~log[i].err /\ log[i].border
          /\ log[i].rendered = i - 1
          /\ log[i].area = ImageDrawnArea(21,
                 log[i].boxTop + (IF i - 1 <= 9 THEN 4 ELSE 2), 3, 3)
          /\ log[i].erased = (IF i - 1 = 10 THEN 6 ELSE 0)
          /\ log[i].boxTop = log[1].boxTop
    /\ pc \in {"flush", "sleep"} =>
          tick.erase = (IF frame = 10
                        THEN Cells(21, 23, tick.boxTop + 5, tick.boxTop + 6)
                        ELSE {})
    /\ InTick => ~tick.err
    /\ ~is_showing_error

\* C10: the playback of all twenty frames, the six cells erased on tick 10
C10_Witness ==
    /\ result = "Ok" /\ Len(log) = 20
    /\ log[10].area.start_y = log[10].boxTop + 4
    /\ log[11].area.start_y = log[11].boxTop + 2
    /\ log[11].erased = 6

\* every terminal operation of print_in_box and of its drop guard
TerminalOps == TickOps \cup {"hide", "save", "size", "exit_restore",
                             "exit_position", "exit_move", "show"}

\* C11: the event drain reads only while an event is pending, the loop never
\* runs more than N = last end_frame_inclusive + 1 ticks, and a playback in
\* which no terminal operation fails ends after exactly N ticks with Ok.
C11_ExactlyNTicks ==
    /\ pc = "read" => events # <<>>
    /\ frame <= max_number_of_frames
    /\ (pc = "done" /\ failedOp \notin TerminalOps) =>
          (result = "Ok" /\ Len(log) = max_number_of_frames)

\* the call of a pure function has returned
Returned(fn) == pc = "returned" /\ args.fn = fn

\* C12: for every colour tag the colouriser returns the raw character or the
\* character with a foreground colour; it never fails.
C12_ColouriseNeverFails ==
    Returned("styled") =>
        /\ ret.kind \in {"raw", "fg"}
        /\ ret.ch = args.ch

\* the exact form: "#" and six hexadecimal digits
IsHashSixHex(hex) ==
    /\ Len(hex) = 7 /\ hex[1] = "#"
    /\ \A i \in 2..7 : IsHexDigit(hex[i])

\* C13: the character is styled if and only if the tag is "#" followed by six
\* hexadecimal digits; every other tag gives the unstyled character.
C13_StyledIffHashSixHex ==
    Returned("styled") =>
        /\ ret.kind = "fg" <=> IsHashSixHex(args.hex)
        /\ ret.kind # "fg" => ret = [kind |-> "raw", ch |-> args.ch]

\* the cells of a drawn area
CellsOf(a) ==
    (a.start_x .. a.start_x + a.width - 1) \X (a.start_y .. a.start_y + a.height - 1)

\* C14: for every previous and current drawn area the erase pass blanks
\* exactly the cells of the previous area that are not in the current one,
\* none when the two are identical.
C14_EraseIsSetDifference ==
    Returned("erase") =>
        /\ ret.kind = "ok"
        /\ ret.cells = CellsOf(args.old) \ CellsOf(args.new)
        /\ args.old = args.new => ret.cells = {}

\* the text rows handed to the compositor and the text rows it returned, as
\* the drawing step reads them
SrcRows == Lines(args.image)
OutRows == Lines(ret.image)
OutRow(r) == IF r <= Len(OutRows) THEN OutRows[r] ELSE <<>>

\* the longest source row, in characters
SrcWidth ==
    IF SrcRows = <<>> THEN 0
    ELSE CHOOSE m \in { Len(SrcRows[r]) : r \in 1..Len(SrcRows) } :
             \A r \in 1..Len(SrcRows) : Len(SrcRows[r]) <= m

\* C15: the compositor returns width = the longest text row, height = the
\* number of text rows, height text rows and height colour rows, and every
\* text row and every colour row is exactly width cells long.
C15_PaddedGridIsRectangular ==
    Returned("pad") =>
        /\ ret.width = SrcWidth
        /\ ret.height = Len(SrcRows)
        /\ Len(OutRows) = ret.height
        /\ Len(ret.colours) = ret.height
        /\ \A r \in 1..Len(OutRows) : Len(OutRows[r]) = ret.width
        /\ \A r \in 1..Len(ret.colours) : Len(ret.colours[r]) = ret.width

\* the colour tag the grid supplies for cell (r, c), the default tag if none
SrcColour(r, c) ==
    IF r <= Len(args.colours) /\ c <= Len(args.colours[r])
    THEN args.colours[r][c] ELSE ""

\* C16: in every row r the source characters and their colour tags stand,
\* unchanged and aligned, from column left pad + 1 on; every other cell of
\* the width x height grid holds the fill character and the default tag.
C16_PaddingKeepsContent ==
    Returned("pad") =>
        \A r \in 1..Len(SrcRows) :
            LET p   == LeftPad(ret.width, Len(SrcRows[r]))
                len == Len(SrcRows[r])
            IN  /\ r <= Len(ret.colours)
                /\ \A c \in 1..len :
                      /\ p + c <= Len(OutRow(r))
                      /\ OutRow(r)[p + c] = SrcRows[r][c]
                      /\ p + c <= Len(ret.colours[r])
                      /\ ret.colours[r][p + c] = SrcColour(r, c)
                /\ \A x \in (1..ret.width) \ (p + 1 .. p + len) :
                      /\ x <= Len(OutRow(r)) /\ OutRow(r)[x] = " "
                      /\ x <= Len(ret.colours[r]) /\ ret.colours[r][x] = ""

\* C17: every row is its source row between floor((width - length) / 2) fill
\* cells on the left and the remaining width - length - left on the right.
C17_OddCellPadsRight ==
    Returned("pad") =>
        \A r \in 1..Len(SrcRows) :
            LET len   == Len(SrcRows[r])
                left  == (ret.width - len) \div 2
                right == ret.width - len - left
            IN  /\ ret.width >= len
                /\ OutRow(r) = Repeat(" ", left) \o SrcRows[r] \o Repeat(" ", right)
                /\ left + len + right = ret.width
                /\ right - left \in {0, 1}

\* the contiguous-coverage invariant of a window list
Contiguous(ws) ==
    /\ ws[1].start_frame_inclusive = 0
    /\ \A i \in 1..Len(ws) : ws[i].start_frame_inclusive <= ws[i].end_frame_inclusive
    /\ \A i \in 1..Len(ws) - 1 :
          ws[i].end_frame_inclusive + 1 = ws[i + 1].start_frame_inclusive

\* C18: in a window list that meets the contiguous-coverage invariant every
\* frame index below N = last end + 1 lies in exactly one window, the scan
\* selects that window and the assertion passes.
C18_ScanFindsTheOneWindow ==
    (/\ Returned("scan") /\ Contiguous(args.windows)
     /\ args.curr_frame <= args.windows[Len(args.windows)].end_frame_inclusive) =>
        /\ Cardinality({ i \in 1..Len(args.windows) :
                           InWindow(args.windows[i], args.curr_frame) }) = 1
        /\ ret.kind = "found"
        /\ InWindow(args.windows[ret.i], args.curr_frame)

\* C18: three contiguous windows, the scan asked for the first frame of the
\* third
C18_Witness ==
    /\ Returned("scan") /\ Contiguous(args.windows)
    /\ Len(args.windows) = 3
    /\ args.curr_frame = args.windows[3].start_frame_inclusive
    /\ ret.kind = "found" /\ ret.i = 3

\* an integer clamped to the range of a u16
Clamp16(n) == IF n < 0 THEN 0 ELSE IF n > U16_MAX THEN U16_MAX ELSE n

\* C19: the draw origin is box_width/2 - frame_width/2 + dx and
\* box_top + box_height/2 - frame_height/2 + dy where that value lies in
\* 0..65535 and is clamped to 0 or 65535 otherwise; nothing wraps or panics.
C19_OriginIsClampedExactValue ==
    Returned("origin") =>
        /\ ret.kind = "ok"
        /\ ret.start_x = Clamp16(BOX_WIDTH \div 2 - args.max_width \div 2
                                   + args.delta_x_from_center)
        /\ ret.start_y = Clamp16(args.curr_cursor_y + BOX_HEIGHT \div 2
                                   - args.max_height \div 2
                                   + args.delta_y_from_center)

\* no completed tick of this playback has drawn a frame
NoneRendered == \A j \in 1..Len(log) : log[j].rendered = -1

\* C20: the first rendered frame of every playback blanks no cell; the
\* previous drawn area is absent from the start of the loop of every call of
\* print_in_box until a frame of that call has been drawn.
C20_FirstFrameErasesNothing ==
    /\ \A i \in 1..Len(log) :
          (log[i].rendered # -1 /\ \A j \in 1..i - 1 : log[j].rendered = -1) =>
              log[i].erased = 0
    /\ (InTick /\ NoneRendered) =>
          (tick.olderBefore = NoArea /\ tick.erase = {})
    /\ (Playing /\ older_image_drawn_area # NoArea) =>
          (~NoneRendered \/ (InTick /\ tick.rendered # -1))

\* C20: the second playback in a process has drawn its first frame, after
\* the first playback had left a drawn area behind
C20_Witness ==
    /\ replays = 1 /\ Len(log) >= 1
    /\ log[1].rendered = 0 /\ log[1].erased = 0
    /\ older_image_drawn_area # NoArea

\* the tick in progress has drawn its frame and run its erase pass
TickDrawn == pc \in {"flush", "sleep"} /\ tick.rendered # -1

\* C21: a rendering tick writes border cells, cells of the current drawn
\* area and cells of the previous area outside the current one, nothing
\* else; no border line is printed into the interior of the box.
C21_WritesOnlyBorderAndAreas ==
    TickDrawn =>
        /\ tick.drawn \cup tick.blanked \subseteq
              CellsOf(tick.area)
                \cup (CellsOf(tick.olderBefore) \ CellsOf(tick.area))
        /\ BorderCells(tick.bend, tick.bcols) \cap InteriorCells(tick.boxTop) = {}

\* C22: a draw writes every cell of the rectangle it records as drawn,
\* padding included.
C22_CurrentAreaFullyWritten ==
    (Returned("draw") /\ ret.kind = "ok") =>
        CellsOf(ret.area) \subseteq ret.cells

\* the completed ticks that drew a frame, in order
RenderedTicks == { i \in 1..Len(log) : log[i].rendered # -1 }

\* C23: while the terminal has not been resized, every rendering tick after
\* the first draws its box from the top row of the first and scrolls nothing,
\* whether or not the first box made the terminal scroll.
C23_BoxStaysPut ==
    resizes = 0 =>
        \A i \in RenderedTicks, j \in RenderedTicks :
            i < j => (log[j].boxTop = log[i].boxTop /\ log[j].scrolled = 0)

\* C23: two frames have been drawn with no resize, and the first box made
\* the terminal scroll
C23_Witness ==
    /\ resizes = 0 /\ Len(log) >= 2
    /\ log[1].rendered = 0 /\ log[1].scrolled > 0
    /\ log[2].rendered = 1 /\ log[2].boxTop = log[1].boxTop

\* the drain of the tick in progress has ended
Drained ==
    pc \in {"restore", "check", "err_save", "err_print", "border", "position",
            "move_save", "render", "erase", "flush", "sleep"}

\* C24: the size a tick decides on is the size carried by the last Resize
\* event queued before its drain ended, the size read at the start if there
\* was none; an event that is no Resize leaves the known size as it is; a
\* poll that finds no event ends the drain in that step.
C24_KnownSizeIsLastResizeDrained ==
    /\ [](/\ \A i \in 1..Len(log) : <<log[i].kw, log[i].kh>> = log[i].drained
          /\ (Drained /\ pc \in {"restore", "check"}) => <<w, h>> = tick.drained
          /\ (Drained /\ pc \notin {"restore", "check"}) =>
                 <<tick.kw, tick.kh>> = tick.drained)
    /\ [][/\ (pc = "read" /\ pc' = "poll" /\ Head(events).type # "Resize") =>
                 UNCHANGED << w, h >>
          /\ (pc = "poll" /\ events = <<>> /\ pc' # "poll") =>
                 pc' \in {"restore", "done"}]_vars

\* C24: a tick has decided on a size that a Resize event brought, after a
\* drain that also read an event of another type
C24_Witness ==
    /\ pc = "sleep" /\ keys = 1 /\ resizes >= 1 /\ Len(log) >= 1
    /\ <<tick.kw, tick.kh>> = tick.drained
    /\ <<tick.kw, tick.kh>> # <<log[1].kw, log[1].kh>>

\* no window of the animation holds frame f
Gap(f) == \A i \in 1..Len(animation) : ~InWindow(animation[i], f)

\* C25: the render step of a tick whose frame no window holds draws nothing
\* and ends the playback with the panic of the assertion; the playback stays
\* ended, and unless the Show of the drop guard failed as well the cursor is
\* visible.
C25_GapStopsPlayback ==
    /\ [](failedOp = "assert" =>
             /\ pc = "done" /\ result \in {"panic", "abort"}
             /\ Gap(frame) /\ tick.rendered = -1 /\ tick.drawn = {}
             /\ \A i \in 1..Len(log) : log[i].f < frame
             /\ result = "panic" => cursorVisible)
    /\ [][(pc = "render" /\ Gap(frame) /\ pc' # pc) =>
             (pc' = "done" /\ failedOp' = "assert")]_vars

\* C25: the playback drew frame 0, found no window for frame 1 and ended
\* with the cursor shown
C25_Witness ==
    /\ pc = "done" /\ failedOp = "assert" /\ result = "panic"
    /\ frame = 1 /\ Len(log) = 1 /\ log[1].rendered = 0
    /\ cursorVisible

\* C26: the row read back after the border has been printed is at least
\* BOX_HEIGHT on every rendering tick, so the box top computed from it does
\* not underflow.
C26_BoxTopNeverUnderflows ==
    /\ pc = "position" => cy >= BOX_HEIGHT
    /\ failedOp # "underflow"
    /\ InTick => tick.boxTop < U16_MAX + 1 - BOX_HEIGHT

\* C27: when a tick that follows a size-error tick has drawn the box and the
\* frame, and when a playback whose last tick drew the box has returned, no
\* cell of the screen shows a character of the size-error message.
C27_NoErrorMessageLeft ==
    /\ (TickDrawn /\ Len(log) >= 1 /\ log[Len(log)].under) => message = {}
    /\ (pc = "done" /\ result = "Ok" /\ Len(log) >= 1
          /\ log[Len(log)].rendered # -1) => message = {}

\* C28: for every window image of one or more rows, empty rows included,
\* drawing what the compositor returns does not fail, and the recorded area
\* starts at the computed origin and has the compositor's width and height.
C28_DrawAcceptsCompositorOutput ==
    (Returned("draw") /\ Len(Lines(args.image)) >= 1) =>
        /\ ret.kind = "ok"
        /\ ret.area = ImageDrawnArea(ret.start_x, ret.start_y,
                                     ret.padded.width, ret.padded.height)

\* C29: the animation generate_pet_status_animation returns has at least one
\* window, its first window starts at frame 0, every window starts no later
\* than it ends, every window but the last ends one frame before the next
\* starts, the last ends at frame 99, and two adjacent windows differ in
\* image, colours or offset.
C29_GeneratedWindowsAreContiguous ==
    Returned("generate") =>
        LET ws == ret.windows
        IN  /\ Len(ws) >= 1
            /\ ws[1].start_frame_inclusive = 0
            /\ \A i \in 1..Len(ws) :
                   ws[i].start_frame_inclusive <= ws[i].end_frame_inclusive
            /\ \A i \in 1..Len(ws) - 1 :
                   /\ ws[i].end_frame_inclusive + 1 = ws[i + 1].start_frame_inclusive
                   /\ \/ ws[i].image # ws[i + 1].image
                      \/ ws[i].colours # ws[i + 1].colours
                      \/ ws[i].delta_x_from_center # ws[i + 1].delta_x_from_center
                      \/ ws[i].delta_y_from_center # ws[i + 1].delta_y_from_center
            /\ ws[Len(ws)].end_frame_inclusive = TOTAL_FRAMES - 1

\* C29: the generator has returned an animation of several windows, one of
\* them a frame of a jump
C29_Witness ==
    /\ Returned("generate") /\ Len(ret.windows) > 3
    /\ \E i \in 1..Len(ret.windows) : ret.windows[i].delta_y_from_center = -2

\* C30: a command run through either wrapper on a config with no logged-in
\* user never runs its body and sends no request, leaves the config in
\* memory and on disk as they were, and returns the not-logged-in error.
C30_NoUserNoCommand ==
    (args.fn = "command" /\ args.config.user = None) =>
        /\ cli.body = 0 /\ cli.requests = 0
        /\ cli.config = args.config /\ cli.disk = args.config
        /\ pc \in {"command", "returned"}
        /\ pc = "returned" => ret = ErrResult(NOT_LOGGED_IN)

\* C30: a command that needs a pet was run with no user logged in and has
\* returned
C30_Witness ==
    /\ Returned("command") /\ args.config.user = None
    /\ args.wrapper = "pet" /\ args.command = "AddRepo"
    /\ ret = ErrResult(NOT_LOGGED_IN) /\ cli.requests = 0

====
